---- MODULE Spec2Model ----
(***************************************************************************)
(* Model of the mount plan executor (src/core/executor.rs) and of the      *)
(* HymoFS control-channel client (src/mount/hymofs.rs).                    *)
(*                                                                         *)
(* One behaviour of the model is one call of one entry point: `prog` says  *)
(* which (execute, check_status, inject_directory, delete_directory_rules, *)
(* or the two path helpers of the executor); the variables of the other    *)
(* entry points keep their idle values.                                    *)
(***************************************************************************)
EXTENDS Integers, Sequences, FiniteSets, TLC

VARIABLES
    prog,               \* entry point being run
    pc,                 \* position inside the entry point
    \* ---- execute (executor.rs) ----
    plan,               \* &MountPlan
    config,             \* &config::Config (the tempdir override only)
    op_idx,             \* index of `op` in `for op in &plan.overlay_ops`
    magic_queue,        \* Vec<PathBuf>
    final_overlay_ids,  \* Vec<String>
    fallback_ids,       \* Vec<String>
    final_magic_ids,    \* Vec<String>
    tempdir,            \* the staging directory in use, or None
    calls,              \* the calls made to the external collaborators, in order
    result,             \* None while running, then the Result<ExecutionResult>
    \* ---- check_status / is_available (hymofs.rs) ----
    ctl,                \* what /proc/hymo_ctl looks like to the probe
    status,             \* value returned by check_status
    available,          \* value returned by is_available
    \* ---- inject_directory / delete_directory_rules (hymofs.rs) ----
    target_base,        \* target_base: &Path
    module_dir,         \* module_dir: &Path, and what is on disk there
    walk,               \* WalkDir iterator: stack of the open directories
    visited,            \* entries yielded by the iterator so far, in order
    cmds,               \* command lines written to the control channel, in order
    sends,              \* the calls of send_cmd with their outcome, in order
    io_result,          \* None while running, then "Ok" or "Err"
    \* ---- extract_module_root / extract_id (executor.rs) ----
    module_root,        \* a module root m
    partition,          \* a partition name p
    root_out,           \* extract_module_root(m.join(p))
    id_out              \* extract_id(m.join(p))

vars == << prog, pc, plan, config, op_idx, magic_queue, final_overlay_ids,
           fallback_ids, final_magic_ids, tempdir, calls, result,
           ctl, status, available, target_base, module_dir, walk, visited, cmds,
           sends, io_result, module_root, partition, root_out, id_out >>

execVars == << plan, config, op_idx, magic_queue, final_overlay_ids,
               fallback_ids, final_magic_ids, tempdir, calls, result >>
probeVars == << ctl, status, available >>
injectVars == << target_base, module_dir, walk, visited, cmds, sends, io_result >>
extractVars == << module_root, partition, root_out, id_out >>

None == "None"

(***************************************************************************)
(* Bounds of the model.                                                    *)
(***************************************************************************)
MaxOps == 2         \* overlay operations in a plan

(***************************************************************************)
(* std::path::Path.  A path is its component list (what Path::components   *)
(* yields): `abs` is the leading RootDir component, `comps` the remaining  *)
(* components, each a Normal name or "..".                                 *)
(***************************************************************************)
Path(a, c) == [abs |-> a, comps |-> c]

Front(s) == SubSeq(s, 1, Len(s) - 1)
Last(s) == s[Len(s)]

\* Option<PathBuf>: << >> is None, << p >> is Some(p).
NoPath == << >>
SomePath(p) == << p >>

\* Path::parent: None for "/" and for the empty path, else the path without
\* its last component.
Parent(p) ==
    IF p.comps = << >> THEN NoPath ELSE SomePath(Path(p.abs, Front(p.comps)))

\* Path::file_name: the last component when it is a Normal one.
FileName(p) ==
    IF p.comps = << >> \/ Last(p.comps) = ".." THEN None ELSE Last(p.comps)

\* Path::join with a relative path.
Join(p, rel) == Path(p.abs, p.comps \o rel)

\* A file name that is not valid UTF-8: the bytes "caf" followed by 0xE9.
NonUtf8Name == "caf<E9>"

\* OsStr::to_string_lossy().to_string(): an invalid byte sequence becomes
\* U+FFFD; the other names of the model are ASCII and are kept.
ToStringLossy(name) ==
    IF name = NonUtf8Name THEN "caf<U+FFFD>" ELSE name

\* Byte order of the names used by the model (str/OsStr Ord).
ByteRank(s) ==
    CASE s = "a" -> 1
      [] s = "b" -> 2
      [] s = "m" -> 3
      [] s = "n" -> 4
      [] s = "system" -> 5
      [] s = "vendor" -> 6

\* Ord of std::path::Component: RootDir < ParentDir < Normal(_).
CompRank(c) == IF c = ".." THEN 0 ELSE ByteRank(c)

RECURSIVE SeqLess(_, _)
SeqLess(s, t) ==
    IF s = << >> THEN t # << >>
    ELSE IF t = << >> THEN FALSE
    ELSE IF s[1] # t[1] THEN s[1] < t[1]
    ELSE SeqLess(Tail(s), Tail(t))

\* <Path as Ord>::cmp: lexicographic on the components, RootDir first.
PathKey(p) ==
    (IF p.abs THEN << -1 >> ELSE << >>) \o [k \in 1..Len(p.comps) |-> CompRank(p.comps[k])]
PathLess(p, q) == SeqLess(PathKey(p), PathKey(q))

StrLess(s, t) == ByteRank(s) < ByteRank(t)

(***************************************************************************)
(* Vec helpers: sort (stable), dedup (consecutive duplicates), contains.   *)
(***************************************************************************)
RECURSIVE InsertPath(_, _)
InsertPath(x, s) ==
    IF s = << >> THEN << x >>
    ELSE IF PathLess(x, s[1]) THEN << x >> \o s
    ELSE << s[1] >> \o InsertPath(x, Tail(s))

\* Vec<PathBuf>::sort
RECURSIVE SortPaths(_)
SortPaths(s) ==
    IF s = << >> THEN << >> ELSE InsertPath(Last(s), SortPaths(Front(s)))

RECURSIVE InsertStr(_, _)
InsertStr(x, s) ==
    IF s = << >> THEN << x >>
    ELSE IF StrLess(x, s[1]) THEN << x >> \o s
    ELSE << s[1] >> \o InsertStr(x, Tail(s))

\* Vec<String>::sort
RECURSIVE SortStrs(_)
SortStrs(s) ==
    IF s = << >> THEN << >> ELSE InsertStr(Last(s), SortStrs(Front(s)))

RECURSIVE Dedup(_)
Dedup(s) ==
    IF Len(s) < 2 THEN s
    ELSE IF s[1] = s[2] THEN Dedup(Tail(s))
    ELSE << s[1] >> \o Dedup(Tail(s))

Contains(s, x) == \E k \in 1..Len(s) : s[k] = x

Elems(s) == { s[k] : k \in 1..Len(s) }

(***************************************************************************)
(* executor.rs                                                             *)
(***************************************************************************)
\* fn extract_module_root(partition_path)
extract_module_root(partition_path) == Parent(partition_path)

\* Variant: the name of the path itself is taken, not of its parent.
extract_id_OwnName(path) ==
    IF Parent(path) = NoPath THEN None
    ELSE IF FileName(path) = None THEN None
    ELSE ToStringLossy(FileName(path))

\* fn extract_id(path)
extract_id(path) ==
    IF Parent(path) = NoPath THEN None
    ELSE IF FileName(Parent(path)[1]) = None THEN None
    ELSE ToStringLossy(FileName(Parent(path)[1]))

\* Variant: the layer path itself is queued, not the module root.
FallbackRoots_PushesLayer(lowerdirs) ==
    SelectSeq(lowerdirs, LAMBDA l : extract_module_root(l) # NoPath)

\* Variant: the IDs are recorded but the module roots are not queued.
FallbackRoots_NoPush(lowerdirs) == << >>

\* The pushes of the fallback loop `for layer_path in &op.lowerdirs` onto
\* magic_queue ...
RECURSIVE FallbackRoots(_)
FallbackRoots(lowerdirs) ==
    IF lowerdirs = << >> THEN << >>
    ELSE (IF extract_module_root(lowerdirs[1]) # NoPath
          THEN << extract_module_root(lowerdirs[1])[1] >> ELSE << >>)
         \o FallbackRoots(Tail(lowerdirs))

\* ... and onto fallback_ids.
RECURSIVE FallbackIds(_)
FallbackIds(lowerdirs) ==
    IF lowerdirs = << >> THEN << >>
    ELSE (IF extract_module_root(lowerdirs[1]) # NoPath /\ extract_id(lowerdirs[1]) # None
          THEN << extract_id(lowerdirs[1]) >> ELSE << >>)
         \o FallbackIds(Tail(lowerdirs))

\* Variant: the retain is left out.
RetainNotFallback_NoRetain(ids, fb) == ids

\* `if !fallback_ids.is_empty() { final_overlay_ids.retain(|id| !fallback_ids.contains(id)) }`
RetainNotFallback(ids, fb) ==
    IF fb # << >> THEN SelectSeq(ids, LAMBDA id : ~Contains(fb, id)) ELSE ids

\* Variant: the queue is sorted but not deduplicated.
DedupQueue_SortOnly(queue) == SortPaths(queue)

\* `magic_queue.sort(); magic_queue.dedup();`
DedupQueue(queue) == Dedup(SortPaths(queue))

\* Variant: the IDs are derived with extract_id, i.e. from the parent of
\* each queued root.
MagicIdsOf_UsesExtractId(queue) ==
    SelectSeq([k \in 1..Len(queue) |-> extract_id(queue[k])], LAMBDA id : id # None)

\* `for path in &magic_queue { if let Some(name) = path.file_name() { push } }`
RECURSIVE MagicIdsOf(_)
MagicIdsOf(queue) ==
    IF queue = << >> THEN << >>
    ELSE (IF FileName(queue[1]) # None
          THEN << ToStringLossy(FileName(queue[1])) >> ELSE << >>)
         \o MagicIdsOf(Tail(queue))

\* Variant: the final lists are sorted but not deduplicated.
Canonical_NoDedup(ids) == SortStrs(ids)

\* `ids.sort(); ids.dedup();` of the final cleanup
Canonical(ids) == Dedup(SortStrs(ids))

(***************************************************************************)
(* Inputs of execute.  Module roots /m/a, /m/b and /n/a (the last has the  *)
(* basename of the first); layer paths follow <module_root>/<partition>,   *)
(* plus "/system" (its parent "/" has no file name) and "/" (no parent).   *)
(***************************************************************************)
RootMA == Path(TRUE, << "m", "a" >>)
RootMB == Path(TRUE, << "m", "b" >>)
RootNA == Path(TRUE, << "n", "a" >>)
Slash == Path(TRUE, << >>)

\* The layer lists an overlay operation of the model can have.
LayerLists ==
    { << Join(RootMA, << "system" >>) >>,
      << Join(RootMA, << "vendor" >>) >>,
      << Join(RootMB, << "system" >>), Join(RootMA, << "system" >>) >>,
      << Join(RootNA, << "system" >>) >>,
      << Path(TRUE, << "system" >>), Slash >> }

\* The values of plan.magic_module_paths ...
MagicPathLists ==
    { << >>, << RootMA >>, << RootMB >>, << RootNA, RootMA >>,
      << Slash, RootMA, RootMA >> }

\* ... and of plan.overlay_module_ids.
OverlayIdLists ==
    { << >>, << "a" >>, << "b", "a" >>, << "b", "a", "b" >> }

SeqsUpTo(S, n) == UNION { [1..k -> S] : k \in 0..n }

OverlayOps == [ target : { "/system" }, lowerdirs : LayerLists ]

MountPlans ==
    [ overlay_ops : SeqsUpTo(OverlayOps, MaxOps),
      magic_module_paths : MagicPathLists,
      overlay_module_ids : OverlayIdLists ]

Configs == [ tempdir : { None, "/cfg/tmp" } ]

DefaultTempDir == "/default/tmp"

IdleExec ==
    /\ plan = None /\ config = None /\ op_idx = 0
    /\ magic_queue = << >> /\ final_overlay_ids = << >> /\ fallback_ids = << >>
    /\ final_magic_ids = << >> /\ tempdir = None /\ calls = << >> /\ result = None

IdleProbe == ctl = None /\ status = None /\ available = None

IdleInject ==
    /\ target_base = None /\ module_dir = None /\ walk = << >> /\ visited = << >>
    /\ cmds = << >> /\ sends = << >> /\ io_result = None

IdleExtract ==
    module_root = None /\ partition = None /\ root_out = None /\ id_out = None

InitExecute ==
    /\ prog = "execute" /\ pc = "start"
    /\ plan \in MountPlans
    /\ config \in Configs
    /\ op_idx = 0
    /\ magic_queue = << >> /\ final_overlay_ids = << >> /\ fallback_ids = << >>
    /\ final_magic_ids = << >> /\ tempdir = None /\ calls = << >> /\ result = None
    /\ IdleProbe /\ IdleInject /\ IdleExtract

(***************************************************************************)
(* pub fn execute(plan, config) -> Result<ExecutionResult>                 *)
(***************************************************************************)
Call(fn, arg, ok) == [fn |-> fn, arg |-> arg, ok |-> ok]

\* lines 27-31: the working copies
ExecuteStart ==
    /\ prog = "execute" /\ pc = "start"
    /\ magic_queue' = plan.magic_module_paths
    /\ final_overlay_ids' = plan.overlay_module_ids
    /\ fallback_ids' = << >>
    /\ op_idx' = 1
    /\ pc' = "overlay"
    /\ UNCHANGED << prog, plan, config, final_magic_ids, tempdir, calls, result >>
    /\ UNCHANGED probeVars /\ UNCHANGED injectVars /\ UNCHANGED extractVars

\* Variant: the loop is left at the first failing operation.
MountOverlayOp_StopsOnFailure ==
    /\ prog = "execute" /\ pc = "overlay"
    /\ op_idx <= Len(plan.overlay_ops)
    /\ \E ok \in BOOLEAN :
        LET op == plan.overlay_ops[op_idx] IN
        /\ calls' = Append(calls, Call("mount_overlay", op_idx, ok))
        /\ IF ok
           THEN /\ UNCHANGED << magic_queue, fallback_ids >>
                /\ op_idx' = op_idx + 1
           ELSE /\ magic_queue' = magic_queue \o FallbackRoots(op.lowerdirs)
                /\ fallback_ids' = fallback_ids \o FallbackIds(op.lowerdirs)
                /\ op_idx' = Len(plan.overlay_ops) + 1
    /\ UNCHANGED << prog, pc, plan, config, final_overlay_ids, final_magic_ids,
                    tempdir, result >>
    /\ UNCHANGED probeVars /\ UNCHANGED injectVars /\ UNCHANGED extractVars

\* lines 34-56: one iteration of `for op in &plan.overlay_ops`; `ok` is the
\* outcome of overlay::mount_overlay.
MountOverlayOp ==
    /\ prog = "execute" /\ pc = "overlay"
    /\ op_idx <= Len(plan.overlay_ops)
    /\ \E ok \in BOOLEAN :
        LET op == plan.overlay_ops[op_idx] IN
        /\ calls' = Append(calls, Call("mount_overlay", op_idx, ok))
        /\ IF ok
           THEN UNCHANGED << magic_queue, fallback_ids >>
           ELSE /\ magic_queue' = magic_queue \o FallbackRoots(op.lowerdirs)
                /\ fallback_ids' = fallback_ids \o FallbackIds(op.lowerdirs)
    /\ op_idx' = op_idx + 1
    /\ UNCHANGED << prog, pc, plan, config, final_overlay_ids, final_magic_ids,
                    tempdir, result >>
    /\ UNCHANGED probeVars /\ UNCHANGED injectVars /\ UNCHANGED extractVars

\* Variant: the staging directory is set up without testing the queue.
AdjustAndDedup_NoEmptyTest ==
    /\ prog = "execute" /\ pc = "overlay"
    /\ op_idx > Len(plan.overlay_ops)
    /\ final_overlay_ids' = RetainNotFallback(final_overlay_ids, fallback_ids)
    /\ magic_queue' = DedupQueue(magic_queue)
    /\ final_magic_ids' = << >>
    /\ pc' = "tempdir"
    /\ UNCHANGED << prog, plan, config, op_idx, fallback_ids, tempdir, calls, result >>
    /\ UNCHANGED probeVars /\ UNCHANGED injectVars /\ UNCHANGED extractVars

\* lines 58-72: retain, sort+dedup of the queue, and the test of
\* `!magic_queue.is_empty()`.
AdjustAndDedup ==
    /\ prog = "execute" /\ pc = "overlay"
    /\ op_idx > Len(plan.overlay_ops)
    /\ final_overlay_ids' = RetainNotFallback(final_overlay_ids, fallback_ids)
    /\ magic_queue' = DedupQueue(magic_queue)
    /\ final_magic_ids' = << >>
    /\ pc' = IF magic_queue' # << >> THEN "tempdir" ELSE "final"
    /\ UNCHANGED << prog, plan, config, op_idx, fallback_ids, tempdir, calls, result >>
    /\ UNCHANGED probeVars /\ UNCHANGED injectVars /\ UNCHANGED extractVars

\* lines 73-84: the override, or utils::select_temp_dir()? ; then the magic
\* IDs are re-calculated from the final queue.
SelectTempDir ==
    /\ prog = "execute" /\ pc = "tempdir"
    /\ \/ /\ config.tempdir # None
          /\ tempdir' = config.tempdir
          /\ final_magic_ids' = MagicIdsOf(magic_queue)
          /\ pc' = "ensure"
          /\ UNCHANGED << calls, result >>
       \/ /\ config.tempdir = None
          /\ calls' = Append(calls, Call("select_temp_dir", None, TRUE))
          /\ tempdir' = DefaultTempDir
          /\ final_magic_ids' = MagicIdsOf(magic_queue)
          /\ pc' = "ensure"
          /\ UNCHANGED result
       \/ /\ config.tempdir = None
          /\ calls' = Append(calls, Call("select_temp_dir", None, FALSE))
          /\ result' = [ok |-> FALSE, err |-> "select_temp_dir"]
          /\ pc' = "done"
          /\ UNCHANGED << tempdir, final_magic_ids >>
    /\ UNCHANGED << prog, plan, config, op_idx, magic_queue, final_overlay_ids,
                    fallback_ids >>
    /\ UNCHANGED probeVars /\ UNCHANGED injectVars /\ UNCHANGED extractVars

\* Variant: the error of ensure_temp_dir is ignored.
EnsureTempDir_IgnoresError ==
    /\ prog = "execute" /\ pc = "ensure"
    /\ \E ok \in BOOLEAN :
          calls' = Append(calls, Call("ensure_temp_dir", tempdir, ok))
    /\ pc' = "mount"
    /\ UNCHANGED << prog, plan, config, op_idx, magic_queue, final_overlay_ids,
                    fallback_ids, final_magic_ids, tempdir, result >>
    /\ UNCHANGED probeVars /\ UNCHANGED injectVars /\ UNCHANGED extractVars

\* line 88: utils::ensure_temp_dir(&tempdir)?
EnsureTempDir ==
    /\ prog = "execute" /\ pc = "ensure"
    /\ \/ /\ calls' = Append(calls, Call("ensure_temp_dir", tempdir, TRUE))
          /\ pc' = "mount"
          /\ UNCHANGED result
       \/ /\ calls' = Append(calls, Call("ensure_temp_dir", tempdir, FALSE))
          /\ result' = [ok |-> FALSE, err |-> "ensure_temp_dir"]
          /\ pc' = "done"
    /\ UNCHANGED << prog, plan, config, op_idx, magic_queue, final_overlay_ids,
                    fallback_ids, final_magic_ids, tempdir >>
    /\ UNCHANGED probeVars /\ UNCHANGED injectVars /\ UNCHANGED extractVars

\* Variant: the IDs are kept when the adapter fails.
AfterMountPartitions_Keep(ids, ok) == ids

\* The new value of final_magic_ids after magic::mount_partitions returned.
AfterMountPartitions(ids, ok) == IF ok THEN ids ELSE << >>

\* Variant: the adapter's error is propagated with `?`.
MountPartitions_Propagates ==
    /\ prog = "execute" /\ pc = "mount"
    /\ \E ok \in BOOLEAN :
        /\ calls' = Append(calls, Call("mount_partitions", magic_queue, ok))
        /\ IF ok
           THEN pc' = "cleanup" /\ UNCHANGED result
           ELSE pc' = "done" /\ result' = [ok |-> FALSE, err |-> "mount_partitions"]
    /\ UNCHANGED << prog, plan, config, op_idx, magic_queue, final_overlay_ids,
                    fallback_ids, final_magic_ids, tempdir >>
    /\ UNCHANGED probeVars /\ UNCHANGED injectVars /\ UNCHANGED extractVars

\* lines 90-100: magic::mount_partitions(&tempdir, &magic_queue, ..)
MountPartitions ==
    /\ prog = "execute" /\ pc = "mount"
    /\ \E ok \in BOOLEAN :
        /\ calls' = Append(calls, Call("mount_partitions", magic_queue, ok))
        /\ final_magic_ids' = AfterMountPartitions(final_magic_ids, ok)
    /\ pc' = "cleanup"
    /\ UNCHANGED << prog, plan, config, op_idx, magic_queue, final_overlay_ids,
                    fallback_ids, tempdir, result >>
    /\ UNCHANGED probeVars /\ UNCHANGED injectVars /\ UNCHANGED extractVars

\* line 102: utils::cleanup_temp_dir(&tempdir)
CleanupTempDir ==
    /\ prog = "execute" /\ pc = "cleanup"
    /\ calls' = Append(calls, Call("cleanup_temp_dir", tempdir, TRUE))
    /\ pc' = "final"
    /\ UNCHANGED << prog, plan, config, op_idx, magic_queue, final_overlay_ids,
                    fallback_ids, final_magic_ids, tempdir, result >>
    /\ UNCHANGED probeVars /\ UNCHANGED injectVars /\ UNCHANGED extractVars

\* Variant: the overlay list is returned in both fields.
ExecuteReturn_SameListTwice ==
    /\ prog = "execute" /\ pc = "final"
    /\ final_overlay_ids' = Canonical(final_overlay_ids)
    /\ final_magic_ids' = Canonical(final_magic_ids)
    /\ result' = [ok |-> TRUE,
                  overlay_module_ids |-> final_overlay_ids',
                  magic_module_ids |-> final_overlay_ids']
    /\ pc' = "done"
    /\ UNCHANGED << prog, plan, config, op_idx, magic_queue, fallback_ids,
                    tempdir, calls >>
    /\ UNCHANGED probeVars /\ UNCHANGED injectVars /\ UNCHANGED extractVars

\* lines 105-114: canonicalise both lists and return Ok
ExecuteReturn ==
    /\ prog = "execute" /\ pc = "final"
    /\ final_overlay_ids' = Canonical(final_overlay_ids)
    /\ final_magic_ids' = Canonical(final_magic_ids)
    /\ result' = [ok |-> TRUE,
                  overlay_module_ids |-> final_overlay_ids',
                  magic_module_ids |-> final_magic_ids']
    /\ pc' = "done"
    /\ UNCHANGED << prog, plan, config, op_idx, magic_queue, fallback_ids,
                    tempdir, calls >>
    /\ UNCHANGED probeVars /\ UNCHANGED injectVars /\ UNCHANGED extractVars

Execute ==
    \/ ExecuteStart
    \/ MountOverlayOp
    \/ AdjustAndDedup
    \/ SelectTempDir
    \/ EnsureTempDir
    \/ MountPartitions
    \/ CleanupTempDir
    \/ ExecuteReturn

(***************************************************************************)
(* hymofs.rs: the kernel feature probe.  Text is a sequence of one-        *)
(* character strings; the content of /proc/hymo_ctl is the sequence of     *)
(* lines that `content.lines()` yields.                                    *)
(***************************************************************************)
EXPECTED_PROTOCOL_VERSION == 3

\* "HymoFS Protocol: "
Prefix ==
    << "H", "y", "m", "o", "F", "S", " ", "P", "r", "o", "t", "o", "c", "o", "l", ":", " " >>

\* Option<T> for texts and integers: << >> is None, << x >> is Some(x).
\* str::strip_prefix
StripPrefix(line, prefix) ==
    IF Len(line) >= Len(prefix) /\ SubSeq(line, 1, Len(prefix)) = prefix
    THEN << SubSeq(line, Len(prefix) + 1, Len(line)) >>
    ELSE << >>

Digits == { "0", "1", "2", "3", "4", "5", "6", "7", "8", "9" }

DigitVal(c) ==
    CASE c = "0" -> 0 [] c = "1" -> 1 [] c = "2" -> 2 [] c = "3" -> 3
      [] c = "4" -> 4 [] c = "5" -> 5 [] c = "6" -> 6 [] c = "7" -> 7
      [] c = "8" -> 8 [] c = "9" -> 9

I32Max == 2147483647
I32Min == -I32Max - 1

\* checked_mul(10) followed by checked_add(d) (positive) or checked_sub(d)
\* (negative) overflows an i32.
Overflows(acc, d, positive) ==
    IF positive THEN acc > (I32Max - d) \div 10
    ELSE (-acc) > (I32Max - (IF d = 0 THEN 0 ELSE d - 1)) \div 10

\* The digit loop of i32::from_str; << >> on a non-digit or on overflow.
RECURSIVE ParseDigits(_, _, _)
ParseDigits(text, acc, positive) ==
    IF text = << >> THEN << acc >>
    ELSE IF text[1] \notin Digits THEN << >>
    ELSE IF Overflows(acc, DigitVal(text[1]), positive) THEN << >>
    ELSE ParseDigits(Tail(text),
                     IF positive THEN acc * 10 + DigitVal(text[1])
                     ELSE acc * 10 - DigitVal(text[1]),
                     positive)

\* str::parse::<i32>: an optional sign, then at least one digit.
ParseI32(text) ==
    IF text = << >> THEN << >>
    ELSE IF text[1] \in { "+", "-" }
         THEN IF Len(text) = 1 THEN << >>
              ELSE ParseDigits(Tail(text), 0, text[1] = "+")
    ELSE ParseDigits(text, 0, TRUE)

\* fn get_protocol_version() -> Option<i32>
get_protocol_version(c) ==
    IF ~c.readable THEN << >>
    ELSE IF c.content = << >> THEN << >>
    ELSE IF StripPrefix(c.content[1], Prefix) = << >> THEN << >>
    ELSE ParseI32(StripPrefix(c.content[1], Prefix)[1])

\* Variant: the two mismatch directions are exchanged.
check_status_Swapped(c) ==
    IF ~c.exists THEN "NotPresent"
    ELSE IF get_protocol_version(c) = << >> THEN "NotPresent"
    ELSE LET kernel_version == get_protocol_version(c)[1] IN
         IF kernel_version # EXPECTED_PROTOCOL_VERSION
         THEN IF kernel_version > EXPECTED_PROTOCOL_VERSION
              THEN "KernelTooOld" ELSE "ModuleTooOld"
         ELSE "Available"

\* pub fn check_status() -> HymoFsStatus
check_status(c) ==
    IF ~c.exists THEN "NotPresent"
    ELSE IF get_protocol_version(c) = << >> THEN "NotPresent"
    ELSE LET kernel_version == get_protocol_version(c)[1] IN
         IF kernel_version # EXPECTED_PROTOCOL_VERSION
         THEN IF kernel_version < EXPECTED_PROTOCOL_VERSION
              THEN "KernelTooOld" ELSE "ModuleTooOld"
         ELSE "Available"

\* pub fn is_available() -> bool
is_available(c) == check_status(c) = "Available"

\* The texts that follow the prefix in the model, each with the integer it
\* denotes as an i32 literal (`valid` is FALSE when it denotes none).
VersionTexts ==
    { [text |-> << "3" >>, valid |-> TRUE, val |-> 3],
      [text |-> << "+", "3" >>, valid |-> TRUE, val |-> 3],
      [text |-> << "0", "3" >>, valid |-> TRUE, val |-> 3],
      [text |-> << "2" >>, valid |-> TRUE, val |-> 2],
      [text |-> << "0" >>, valid |-> TRUE, val |-> 0],
      [text |-> << "-", "1" >>, valid |-> TRUE, val |-> -1],
      [text |-> << "-", "4" >>, valid |-> TRUE, val |-> -4],
      [text |-> << "4" >>, valid |-> TRUE, val |-> 4],
      [text |-> << "1", "2" >>, valid |-> TRUE, val |-> 12],
      [text |-> << "3", "0" >>, valid |-> TRUE, val |-> 30],
      [text |-> << "2", "1", "4", "7", "4", "8", "3", "6", "4", "7" >>,
       valid |-> TRUE, val |-> I32Max],
      [text |-> << "-", "2", "1", "4", "7", "4", "8", "3", "6", "4", "8" >>,
       valid |-> TRUE, val |-> I32Min],
      [text |-> << "2", "1", "4", "7", "4", "8", "3", "6", "4", "8" >>,
       valid |-> FALSE, val |-> 0],
      [text |-> << "-", "2", "1", "4", "7", "4", "8", "3", "6", "4", "9" >>,
       valid |-> FALSE, val |-> 0],
      [text |-> << >>, valid |-> FALSE, val |-> 0],
      [text |-> << "+" >>, valid |-> FALSE, val |-> 0],
      [text |-> << "-" >>, valid |-> FALSE, val |-> 0],
      [text |-> << " ", "3" >>, valid |-> FALSE, val |-> 0],
      [text |-> << "3", " " >>, valid |-> FALSE, val |-> 0],
      [text |-> << "3", ".", "0" >>, valid |-> FALSE, val |-> 0],
      [text |-> << "3", "x" >>, valid |-> FALSE, val |-> 0],
      [text |-> << "v", "3" >>, valid |-> FALSE, val |-> 0],
      [text |-> << "+", "-", "3" >>, valid |-> FALSE, val |-> 0] }

\* First lines that do not start with the prefix.
OtherLines ==
    { << >>,
      << "3" >>,
      << "H", "y", "m", "o", "F", "S", " ", "P", "r", "o", "t", "o", "c", "o", "l", ":", "3" >>,
      << " " >> \o Prefix \o << "3" >>,
      << "h" >> \o Tail(Prefix) \o << "3" >> }

FirstLines == { Prefix \o r.text : r \in VersionTexts } \cup OtherLines

\* The file is empty, has one line, or has a second line after it.
Contents ==
    { << >> } \cup { << l >> : l \in FirstLines }
              \cup { << l, Prefix \o << "3" >> >> : l \in FirstLines }

CtlFiles ==
    { [exists |-> FALSE, readable |-> FALSE, content |-> << >>] }
    \cup [ exists : { TRUE }, readable : BOOLEAN, content : Contents ]

InitProbe ==
    /\ prog = "check_status" /\ pc = "start"
    /\ ctl \in CtlFiles
    /\ status = None /\ available = None
    /\ IdleExec /\ IdleInject /\ IdleExtract

\* A caller evaluates check_status() ...
CheckStatus ==
    /\ prog = "check_status" /\ pc = "start"
    /\ status' = check_status(ctl)
    /\ pc' = "checked"
    /\ UNCHANGED << prog, ctl, available >>
    /\ UNCHANGED execVars /\ UNCHANGED injectVars /\ UNCHANGED extractVars

\* ... and then is_available(), which probes again.
IsAvailable ==
    /\ prog = "check_status" /\ pc = "checked"
    /\ available' = is_available(ctl)
    /\ pc' = "done"
    /\ UNCHANGED << prog, ctl, status >>
    /\ UNCHANGED execVars /\ UNCHANGED injectVars /\ UNCHANGED extractVars

Probe == CheckStatus \/ IsAvailable

(***************************************************************************)
(* hymofs.rs: the injection protocol client.  A command line is the tuple  *)
(* of its space-separated fields; a path field is the path that            *)
(* Path::display prints.                                                   *)
(***************************************************************************)
\* u32::to_string for the type tags in use.
U32ToString(n) ==
    CASE n = 0 -> "0" [] n = 8 -> "8" [] n = 10 -> "10"

\* Variant: the two paths are written in the other order.
add_rule_Cmd_Swapped(src, target, file_type) ==
    << "add", target, src,
       U32ToString(IF file_type = << >> THEN 0 ELSE file_type[1]) >>

\* pub fn add_rule(src, target, file_type): the command it formats;
\* file_type is an Option<u32>.
add_rule_Cmd(src, target, file_type) ==
    << "add", src, target,
       U32ToString(IF file_type = << >> THEN 0 ELSE file_type[1]) >>

\* pub fn hide_path(path)
hide_path_Cmd(path) == << "hide", path >>

\* pub fn inject_dir(dir)
inject_dir_Cmd(dir) == << "inject", dir >>

\* Path::strip_prefix: the components after `base`, << >> (None) when
\* `base` is no prefix; Some(rel) is << rel >>.
StripPathPrefix(p, base) ==
    IF /\ p.abs = base.abs
       /\ Len(p.comps) >= Len(base.comps)
       /\ SubSeq(p.comps, 1, Len(base.comps)) = base.comps
    THEN << SubSeq(p.comps, Len(base.comps) + 1, Len(p.comps)) >>
    ELSE << >>

\* The entries of the module directory: `rel` is the path below the root,
\* `kind` what DirEntry::file_type says, `rdev` what metadata().rdev() says.
EntryKinds ==
    { [kind |-> "file", rdev |-> 0], [kind |-> "symlink", rdev |-> 0],
      [kind |-> "chardev", rdev |-> 0], [kind |-> "chardev", rdev |-> 1],
      [kind |-> "other", rdev |-> 1] }
DirKind == [kind |-> "dir", rdev |-> 0]

Entry(rel, k) == [rel |-> rel, kind |-> k.kind, rdev |-> k.rdev]

\* "x" may be a directory holding "z"; "y" and "w" are not directories.
Trees ==
    { tx \cup ty \cup tw :
        tx \in { {} } \cup { { Entry(<< "x" >>, k) } : k \in EntryKinds \cup { DirKind } }
                      \cup { { Entry(<< "x" >>, DirKind), Entry(<< "x", "z" >>, k) } :
                                k \in EntryKinds \cup { DirKind } },
        ty \in { {} } \cup { { Entry(<< "y" >>, k) } : k \in EntryKinds },
        tw \in { {} } \cup { { Entry(<< "w" >>, k) } : k \in EntryKinds } }

ModuleDirPath == Path(TRUE, << "m", "a", "system" >>)

ModuleDirs ==
    { [path |-> ModuleDirPath, kind |-> "absent", entries |-> {}],
      [path |-> ModuleDirPath, kind |-> "file", entries |-> {}] }
    \cup [ path : { ModuleDirPath }, kind : { "dir" }, entries : Trees ]

TargetBases == { Path(TRUE, << "system" >>) }

InitInject ==
    /\ prog = "inject_directory" /\ pc = "start"
    /\ target_base \in TargetBases
    /\ module_dir \in ModuleDirs
    /\ walk = << >> /\ visited = << >> /\ cmds = << >> /\ sends = << >>
    /\ io_result = None
    /\ IdleExec /\ IdleProbe /\ IdleExtract

\* The entries of the directory `rel` (<< >> is the root).
Children(rel) ==
    { e \in module_dir.entries : Len(e.rel) = Len(rel) + 1 /\ Front(e.rel) = rel }

\* WalkDir's stack of open directories, the exhausted ones on top removed.
RECURSIVE PopExhausted(_)
PopExhausted(stack) ==
    IF stack = << >> THEN << >>
    ELSE IF Last(stack) = {} THEN PopExhausted(Front(stack))
    ELSE stack

\* The command inject_directory sends for an entry (lines 113-124), as an
\* Option: << >> when it sends none.
EntryCmd(base, dir, e) ==
    LET current_path == Join(dir, e.rel)
        relative_path == StripPathPrefix(current_path, dir)[1]
        target_path == Join(base, relative_path)
    IN  IF e.kind = "file" THEN << add_rule_Cmd(target_path, current_path, << 8 >>) >>
        ELSE IF e.kind = "symlink" THEN << add_rule_Cmd(target_path, current_path, << 10 >>) >>
        ELSE IF e.kind = "chardev"
             THEN IF e.rdev = 0 THEN << hide_path_Cmd(target_path) >> ELSE << >>
        ELSE IF e.kind = "dir" THEN << inject_dir_Cmd(target_path) >>
        ELSE << >>

\* fn send_cmd(cmd) as seen by the log of sends.
Send(cmd, ok) == [cmd |-> cmd, ok |-> ok]

\* Variant: the walk starts without marking the target base.
InjectStart_NoBoundary ==
    /\ prog = "inject_directory" /\ pc = "start"
    /\ \/ /\ module_dir.kind # "dir"
          /\ io_result' = "Ok" /\ pc' = "done"
          /\ UNCHANGED walk
       \/ /\ module_dir.kind = "dir"
          /\ walk' = << Children(<< >>) >>
          /\ pc' = "walk"
          /\ UNCHANGED io_result
    /\ UNCHANGED << prog, target_base, module_dir, visited, cmds, sends >>
    /\ UNCHANGED execVars /\ UNCHANGED probeVars /\ UNCHANGED extractVars

\* Variant: the target base is marked before the directory is tested.
InjectStart_InjectsFirst ==
    /\ prog = "inject_directory" /\ pc = "start"
    /\ \/ /\ cmds' = Append(cmds, inject_dir_Cmd(target_base))
          /\ sends' = Append(sends, Send(inject_dir_Cmd(target_base), TRUE))
          /\ IF module_dir.kind # "dir"
             THEN io_result' = "Ok" /\ pc' = "done" /\ UNCHANGED walk
             ELSE walk' = << Children(<< >>) >> /\ pc' = "walk" /\ UNCHANGED io_result
       \/ /\ sends' = Append(sends, Send(inject_dir_Cmd(target_base), FALSE))
          /\ io_result' = "Err" /\ pc' = "done"
          /\ UNCHANGED << cmds, walk >>
    /\ UNCHANGED << prog, target_base, module_dir, visited >>
    /\ UNCHANGED execVars /\ UNCHANGED probeVars /\ UNCHANGED extractVars

\* lines 99-103: the existence test and `Self::inject_dir(target_base)?`,
\* whose send_cmd succeeds or fails.
InjectStart ==
    /\ prog = "inject_directory" /\ pc = "start"
    /\ \/ /\ module_dir.kind # "dir"
          /\ io_result' = "Ok" /\ pc' = "done"
          /\ UNCHANGED << cmds, sends, walk >>
       \/ /\ module_dir.kind = "dir"
          /\ cmds' = Append(cmds, inject_dir_Cmd(target_base))
          /\ sends' = Append(sends, Send(inject_dir_Cmd(target_base), TRUE))
          /\ walk' = << Children(<< >>) >>
          /\ pc' = "walk"
          /\ UNCHANGED io_result
       \/ /\ module_dir.kind = "dir"
          /\ sends' = Append(sends, Send(inject_dir_Cmd(target_base), FALSE))
          /\ io_result' = "Err" /\ pc' = "done"
          /\ UNCHANGED << cmds, walk >>
    /\ UNCHANGED << prog, target_base, module_dir, visited >>
    /\ UNCHANGED execVars /\ UNCHANGED probeVars /\ UNCHANGED extractVars

\* Variant: a failed send is ignored and the walk goes on.
InjectEntry_IgnoresSendError ==
    /\ prog = "inject_directory" /\ pc = "walk"
    /\ PopExhausted(walk) # << >>
    /\ LET stack == PopExhausted(walk) IN
       \E e \in Last(stack) :
          LET rest == Append(Front(stack), Last(stack) \ { e })
              next == IF e.kind = "dir" THEN Append(rest, Children(e.rel)) ELSE rest
              cmd == EntryCmd(target_base, module_dir.path, e)
          IN
          /\ walk' = next
          /\ visited' = Append(visited, e.rel)
          /\ \/ /\ cmds' = cmds \o cmd
                /\ sends' = sends \o (IF cmd = << >> THEN << >> ELSE << Send(cmd[1], TRUE) >>)
             \/ /\ cmd # << >>
                /\ sends' = Append(sends, Send(cmd[1], FALSE))
                /\ UNCHANGED cmds
          /\ UNCHANGED << pc, io_result >>
    /\ UNCHANGED << prog, target_base, module_dir >>
    /\ UNCHANGED execVars /\ UNCHANGED probeVars /\ UNCHANGED extractVars

\* lines 105-125: one iteration of `for entry in WalkDir::new(module_dir)
\* .min_depth(1)`.  The iterator yields the entries of a directory in the
\* order of readdir, a directory before its contents.
InjectEntry ==
    /\ prog = "inject_directory" /\ pc = "walk"
    /\ PopExhausted(walk) # << >>
    /\ LET stack == PopExhausted(walk) IN
       \E e \in Last(stack) :
          LET rest == Append(Front(stack), Last(stack) \ { e })
              next == IF e.kind = "dir" THEN Append(rest, Children(e.rel)) ELSE rest
              cmd == EntryCmd(target_base, module_dir.path, e)
          IN
          \/ \* the entry is handled; its command, if any, was sent
             /\ walk' = next
             /\ visited' = Append(visited, e.rel)
             /\ cmds' = cmds \o cmd
             /\ sends' = sends \o (IF cmd = << >> THEN << >> ELSE << Send(cmd[1], TRUE) >>)
             /\ UNCHANGED << pc, io_result >>
          \/ \* send_cmd failed for the entry's command
             /\ cmd # << >>
             /\ walk' = next
             /\ visited' = Append(visited, e.rel)
             /\ sends' = Append(sends, Send(cmd[1], FALSE))
             /\ io_result' = "Err" /\ pc' = "done"
             /\ UNCHANGED cmds
          \/ \* `entry.metadata()?` failed
             /\ e.kind = "chardev"
             /\ walk' = next
             /\ visited' = Append(visited, e.rel)
             /\ io_result' = "Err" /\ pc' = "done"
             /\ UNCHANGED << cmds, sends >>
    /\ UNCHANGED << prog, target_base, module_dir >>
    /\ UNCHANGED execVars /\ UNCHANGED probeVars /\ UNCHANGED extractVars

\* `let entry = entry?;` when the iterator yields an error
InjectWalkError ==
    /\ prog = "inject_directory" /\ pc = "walk"
    /\ io_result' = "Err" /\ pc' = "done"
    /\ UNCHANGED << prog, target_base, module_dir, walk, visited, cmds, sends >>
    /\ UNCHANGED execVars /\ UNCHANGED probeVars /\ UNCHANGED extractVars

\* line 126: the iterator is exhausted
InjectReturn ==
    /\ prog = "inject_directory" /\ pc = "walk"
    /\ PopExhausted(walk) = << >>
    /\ walk' = << >>
    /\ io_result' = "Ok" /\ pc' = "done"
    /\ UNCHANGED << prog, target_base, module_dir, visited, cmds, sends >>
    /\ UNCHANGED execVars /\ UNCHANGED probeVars /\ UNCHANGED extractVars

InjectDirectory == InjectStart \/ InjectEntry \/ InjectWalkError \/ InjectReturn

(***************************************************************************)
(* pub fn delete_directory_rules(target_base, module_dir)                  *)
(***************************************************************************)
InitDelete ==
    /\ prog = "delete_directory_rules" /\ pc = "start"
    /\ target_base \in TargetBases
    /\ module_dir \in ModuleDirs
    /\ walk = << >> /\ visited = << >> /\ cmds = << >> /\ sends = << >>
    /\ io_result = None
    /\ IdleExec /\ IdleProbe /\ IdleExtract

\* pub fn delete_rule(src)
delete_rule_Cmd(src) == << "delete", src >>

\* Variant: the rule of the module path is deleted, not of the target path.
DeleteCmd_SourcePath(base, dir, e) == delete_rule_Cmd(Join(dir, e.rel))

\* The command delete_directory_rules sends for an entry (lines 136-139).
DeleteCmd(base, dir, e) ==
    LET relative_path == StripPathPrefix(Join(dir, e.rel), dir)[1]
        target_path == Join(base, relative_path)
    IN  delete_rule_Cmd(target_path)

\* lines 130-132: the existence test; WalkDir::new(module_dir) is opened
DeleteStart ==
    /\ prog = "delete_directory_rules" /\ pc = "start"
    /\ \/ /\ module_dir.kind # "dir"
          /\ io_result' = "Ok" /\ pc' = "done"
          /\ UNCHANGED walk
       \/ /\ module_dir.kind = "dir"
          /\ walk' = << Children(<< >>) >>
          /\ pc' = "walk"
          /\ UNCHANGED io_result
    /\ UNCHANGED << prog, target_base, module_dir, visited, cmds, sends >>
    /\ UNCHANGED execVars /\ UNCHANGED probeVars /\ UNCHANGED extractVars

\* lines 134-140: one iteration of the loop; `Self::delete_rule(&target_path)?`
\* succeeds or fails.
DeleteEntry ==
    /\ prog = "delete_directory_rules" /\ pc = "walk"
    /\ PopExhausted(walk) # << >>
    /\ LET stack == PopExhausted(walk) IN
       \E e \in Last(stack) :
          LET rest == Append(Front(stack), Last(stack) \ { e })
              next == IF e.kind = "dir" THEN Append(rest, Children(e.rel)) ELSE rest
              cmd == DeleteCmd(target_base, module_dir.path, e)
          IN
          /\ walk' = next
          /\ visited' = Append(visited, e.rel)
          /\ \/ /\ cmds' = Append(cmds, cmd)
                /\ sends' = Append(sends, Send(cmd, TRUE))
                /\ UNCHANGED << pc, io_result >>
             \/ /\ sends' = Append(sends, Send(cmd, FALSE))
                /\ io_result' = "Err" /\ pc' = "done"
                /\ UNCHANGED cmds
    /\ UNCHANGED << prog, target_base, module_dir >>
    /\ UNCHANGED execVars /\ UNCHANGED probeVars /\ UNCHANGED extractVars

\* `let entry = entry?;` when the iterator yields an error
DeleteWalkError ==
    /\ prog = "delete_directory_rules" /\ pc = "walk"
    /\ io_result' = "Err" /\ pc' = "done"
    /\ UNCHANGED << prog, target_base, module_dir, walk, visited, cmds, sends >>
    /\ UNCHANGED execVars /\ UNCHANGED probeVars /\ UNCHANGED extractVars

\* line 141: the iterator is exhausted
DeleteReturn ==
    /\ prog = "delete_directory_rules" /\ pc = "walk"
    /\ PopExhausted(walk) = << >>
    /\ walk' = << >>
    /\ io_result' = "Ok" /\ pc' = "done"
    /\ UNCHANGED << prog, target_base, module_dir, visited, cmds, sends >>
    /\ UNCHANGED execVars /\ UNCHANGED probeVars /\ UNCHANGED extractVars

DeleteDirectoryRules == DeleteStart \/ DeleteEntry \/ DeleteWalkError \/ DeleteReturn

(***************************************************************************)
(* executor.rs: extract_module_root and extract_id applied to the layer    *)
(* path m.join(p) of a module root m and a partition name p.               *)
(***************************************************************************)
\* Module roots: absolute, relative, "/", the empty path, one ending in
\* ".." and one whose name is not valid UTF-8.
ExtractRoots ==
    { RootMA, RootMB, RootNA, Slash,
      Path(FALSE, << "a" >>), Path(FALSE, << "m", "b" >>), Path(FALSE, << >>),
      Path(TRUE, << "m", ".." >>), Path(FALSE, << ".." >>),
      Path(TRUE, << "m", NonUtf8Name >>) }

PartitionNames == { "system", "vendor" }

InitExtract ==
    /\ prog = "extract" /\ pc = "start"
    /\ module_root \in ExtractRoots
    /\ partition \in PartitionNames
    /\ root_out = None /\ id_out = None
    /\ IdleExec /\ IdleProbe /\ IdleInject

\* extract_module_root(&m.join(p))
ExtractModuleRoot ==
    /\ prog = "extract" /\ pc = "start"
    /\ root_out' = extract_module_root(Join(module_root, << partition >>))
    /\ pc' = "root"
    /\ UNCHANGED << prog, module_root, partition, id_out >>
    /\ UNCHANGED execVars /\ UNCHANGED probeVars /\ UNCHANGED injectVars

\* extract_id(&m.join(p))
ExtractId ==
    /\ prog = "extract" /\ pc = "root"
    /\ id_out' = extract_id(Join(module_root, << partition >>))
    /\ pc' = "done"
    /\ UNCHANGED << prog, module_root, partition, root_out >>
    /\ UNCHANGED execVars /\ UNCHANGED probeVars /\ UNCHANGED injectVars

Extract == ExtractModuleRoot \/ ExtractId

Init == InitExecute \/ InitProbe \/ InitInject \/ InitDelete \/ InitExtract
Next == Execute \/ Probe \/ InjectDirectory \/ DeleteDirectoryRules \/ Extract
Spec == Init /\ [][Next]_vars

(***************************************************************************)
(* Vocabulary of the properties of execute.                                *)
(***************************************************************************)
Returned == prog = "execute" /\ pc = "done"
ReturnedOk == Returned /\ result.ok
ReturnedErr == Returned /\ ~result.ok

Called(fn) == \E k \in 1..Len(calls) : calls[k].fn = fn
CallFailed(fn) == \E k \in 1..Len(calls) : calls[k].fn = fn /\ ~calls[k].ok
CallOk(fn) == \E k \in 1..Len(calls) : calls[k].fn = fn /\ calls[k].ok

\* The union mount of operation n was attempted and failed / succeeded.
OpFailed(n) ==
    \E k \in 1..Len(calls) :
        calls[k].fn = "mount_overlay" /\ calls[k].arg = n /\ ~calls[k].ok
OpSucceeded(n) ==
    \E k \in 1..Len(calls) :
        calls[k].fn = "mount_overlay" /\ calls[k].arg = n /\ calls[k].ok

OpIndices == IF prog = "execute" THEN 1..Len(plan.overlay_ops) ELSE {}

\* Module IDs / module roots derived from the layer paths of operation n.
IdsOfOp(n) ==
    { extract_id(l) : l \in Elems(plan.overlay_ops[n].lowerdirs) } \ { None }
RootsOfOp(n) ==
    { Parent(l)[1] : l \in { x \in Elems(plan.overlay_ops[n].lowerdirs) : Parent(x) # NoPath } }

FailedIds == UNION { IdsOfOp(n) : n \in { x \in OpIndices : OpFailed(x) } }

Basenames(paths) == { FileName(p) : p \in paths } \ { None }

StrictlySorted(ids) == \A k \in 1..(Len(ids) - 1) : StrLess(ids[k], ids[k + 1])

Count(s, x) == Cardinality({ k \in 1..Len(s) : s[k] = x })

\* C1: execute returns Ok whenever select_temp_dir and ensure_temp_dir did
\* not fail: no failure of mount_overlay or of mount_partitions becomes an
\* error of execute.
C1_MountFailuresAbsorbed ==
    (Returned /\ ~CallFailed("select_temp_dir") /\ ~CallFailed("ensure_temp_dir"))
        => result.ok

C1_Witness ==
    /\ ReturnedOk
    /\ CallFailed("mount_overlay")
    /\ CallFailed("mount_partitions")

\* C2: in a returned result, no Module ID derived from a layer path of a
\* failed overlay operation is in the overlay ID set, also when the module
\* has a layer in another operation that succeeded.
C2_FailedIdsNotInOverlay ==
    ReturnedOk => FailedIds \cap Elems(result.overlay_module_ids) = {}

C2_Witness ==
    /\ ReturnedOk
    /\ \E n, m \in OpIndices :
          /\ OpFailed(n) /\ OpSucceeded(m)
          /\ \E id \in IdsOfOp(n) \cap IdsOfOp(m) :
                Contains(plan.overlay_module_ids, id)

\* C3 as stated: in a returned result, every module with a layer in a failed
\* overlay operation is in the replication ID set.
C3_Original ==
    ReturnedOk => FailedIds \subseteq Elems(result.magic_module_ids)

\* C3 amended: the same, provided mount_partitions did not fail.
C3_FailedIdsInMagicWhenReplicated ==
    (ReturnedOk /\ ~CallFailed("mount_partitions"))
        => FailedIds \subseteq Elems(result.magic_module_ids)

C3_Witness ==
    /\ ReturnedOk /\ CallOk("mount_partitions")
    /\ FailedIds # {}
    /\ FailedIds \subseteq Elems(result.magic_module_ids)

AllOpsSucceeded == ~CallFailed("mount_overlay")

\* The two sets of C4, stated on the plan.
OverlayAsPlanned ==
    /\ StrictlySorted(result.overlay_module_ids)
    /\ Elems(result.overlay_module_ids) = Elems(plan.overlay_module_ids)
MagicAsPlanned ==
    /\ StrictlySorted(result.magic_module_ids)
    /\ Elems(result.magic_module_ids) = Basenames(Elems(plan.magic_module_paths))

\* C4 as stated: when every union mount succeeds, the overlay set is the
\* sorted, deduplicated plan.overlay_module_ids and the replication set the
\* sorted, deduplicated basenames of plan.magic_module_paths.
C4_Original ==
    (ReturnedOk /\ AllOpsSucceeded) => (OverlayAsPlanned /\ MagicAsPlanned)

\* C4 amended: when every union mount succeeds, the overlay set is the
\* sorted, deduplicated plan.overlay_module_ids and, provided
\* mount_partitions did not fail, the replication set is the sorted,
\* deduplicated basenames of plan.magic_module_paths.
C4_PlanReportedWhenAllSucceed ==
    (ReturnedOk /\ AllOpsSucceeded)
        => /\ OverlayAsPlanned
           /\ ~CallFailed("mount_partitions") => MagicAsPlanned

C4_Witness ==
    /\ ReturnedOk /\ AllOpsSucceeded /\ CallOk("mount_partitions")
    /\ Len(plan.overlay_ops) > 0
    /\ Len(plan.overlay_module_ids) > Cardinality(Elems(plan.overlay_module_ids))
    /\ Len(plan.magic_module_paths) > Cardinality(Elems(plan.magic_module_paths))

\* C5 as stated: when every union mount succeeds, no ID is in both returned
\* sets.
C5_Original ==
    (ReturnedOk /\ AllOpsSucceeded)
        => Elems(result.overlay_module_ids) \cap Elems(result.magic_module_ids) = {}

PlanDisjoint ==
    Elems(plan.overlay_module_ids) \cap Basenames(Elems(plan.magic_module_paths)) = {}

\* C5 amended: when every union mount succeeds and no ID of
\* plan.overlay_module_ids is the basename of an entry of
\* plan.magic_module_paths, no ID is in both returned sets.
C5_DisjointWhenPlanDisjoint ==
    (ReturnedOk /\ AllOpsSucceeded /\ PlanDisjoint)
        => Elems(result.overlay_module_ids) \cap Elems(result.magic_module_ids) = {}

C5_Witness ==
    /\ ReturnedOk /\ AllOpsSucceeded /\ PlanDisjoint
    /\ Len(plan.overlay_ops) > 0
    /\ result.overlay_module_ids # << >>
    /\ result.magic_module_ids # << >>

\* The batches handed to mount_partitions.
Batches ==
    { calls[k].arg : k \in { x \in 1..Len(calls) : calls[x].fn = "mount_partitions" } }

NoPathTwice(batch) ==
    \A j, k \in 1..Len(batch) : j # k => batch[j] # batch[k]

\* C6 as stated: the batch of mount_partitions holds no path twice, and
\* the ID of each root of the batch appears exactly once in the returned
\* replication ID set.
C6_Original ==
    /\ \A b \in Batches : NoPathTwice(b)
    /\ ReturnedOk =>
          \A b \in Batches : \A id \in Basenames(Elems(b)) :
              Count(result.magic_module_ids, id) = 1

\* C6 amended: the batch holds no path twice; the ID of each root of the
\* batch appears exactly once in the returned replication ID set when
\* mount_partitions succeeded, and not at all when it failed.
C6_BatchDedupAndSingleId ==
    /\ \A b \in Batches : NoPathTwice(b)
    /\ ReturnedOk =>
          \A b \in Batches : \A id \in Basenames(Elems(b)) :
              Count(result.magic_module_ids, id) =
                  (IF CallFailed("mount_partitions") THEN 0 ELSE 1)

\* A root was pushed by two failing operations, and one by the plan's
\* magic_module_paths and a failing operation.
C6_Witness ==
    /\ ReturnedOk /\ CallOk("mount_partitions")
    /\ \E n, m \in OpIndices :
          /\ n # m /\ OpFailed(n) /\ OpFailed(m)
          /\ \E r \in RootsOfOp(n) \cap RootsOfOp(m) :
                /\ FileName(r) # None
                /\ Contains(plan.magic_module_paths, r)
                /\ \A b \in Batches : Contains(b, r)

\* C7: if mount_partitions fails, the returned replication ID set is empty
\* and the modules that fell back are in neither returned set.
C7_FailClosed ==
    (ReturnedOk /\ CallFailed("mount_partitions"))
        => /\ result.magic_module_ids = << >>
           /\ FailedIds \cap Elems(result.overlay_module_ids) = {}
           /\ Elems(fallback_ids) \cap Elems(result.overlay_module_ids) = {}

C7_Witness ==
    /\ ReturnedOk /\ CallFailed("mount_partitions")
    /\ FailedIds \cap Elems(plan.overlay_module_ids) # {}
    /\ \A b \in Batches : Basenames(Elems(b)) # {}

\* C8: whenever the fallback queue is non-empty and a staging directory was
\* resolved, cleanup_temp_dir has been called on it when execute returns, on
\* the error exits too.
C8_TempDirReleasedOnEveryExit ==
    (Returned /\ magic_queue # << >> /\ tempdir # None)
        => \E k \in 1..Len(calls) :
              calls[k].fn = "cleanup_temp_dir" /\ calls[k].arg = tempdir

(***************************************************************************)
(* Properties of the probe.                                                *)
(***************************************************************************)
\* The first line is the prefix followed by an i32 literal.
WellFormedLine(line) ==
    \E r \in VersionTexts : r.valid /\ line = Prefix \o r.text
VersionOf(line) ==
    (CHOOSE r \in VersionTexts : r.valid /\ line = Prefix \o r.text).val

NoVersion ==
    \/ ~ctl.exists
    \/ ~ctl.readable
    \/ ctl.content = << >>
    \/ ~WellFormedLine(ctl.content[1])

\* C9: check_status is NotPresent when the control path is absent (or
\* unreadable) or its first line is missing or is not the prefix followed by
\* an integer; otherwise, with v the version read, it is KernelTooOld iff
\* v < 3, ModuleTooOld iff v > 3 and Available iff v = 3; is_available is
\* TRUE exactly when check_status is Available.
C9_CheckStatus ==
    (prog = "check_status" /\ pc # "start") =>
        /\ NoVersion => status = "NotPresent"
        /\ ~NoVersion =>
              LET v == VersionOf(ctl.content[1]) IN
              /\ status = "KernelTooOld" <=> v < EXPECTED_PROTOCOL_VERSION
              /\ status = "ModuleTooOld" <=> v > EXPECTED_PROTOCOL_VERSION
              /\ status = "Available" <=> v = EXPECTED_PROTOCOL_VERSION
        /\ pc = "done" => (available <=> status = "Available")

C9_Witness ==
    /\ prog = "check_status" /\ pc = "done"
    /\ status = "ModuleTooOld" /\ available = FALSE
    /\ Len(ctl.content) = 2

(***************************************************************************)
(* Properties of inject_directory.                                         *)
(***************************************************************************)
Projected ==
    /\ prog = "inject_directory" /\ pc = "done"
    /\ module_dir.kind = "dir" /\ io_result = "Ok"

TargetOf(e) == Path(target_base.abs, target_base.comps \o e.rel)
SourceOf(e) == Path(module_dir.path.abs, module_dir.path.comps \o e.rel)

\* The commands after the `inject` of the target base.
EntryCmds == Tail(cmds)

\* The command lines of EntryCmds whose first path is p.
CmdsAbout(p) == { k \in 1..Len(EntryCmds) : EntryCmds[k][2] = p }

\* C10: a completed projection has sent, for each entry below the module
\* root, exactly one command when the entry is a regular file
\* (add <T/rel> <module path> 8), a symlink (add <T/rel> <module path> 10),
\* a character device with device number 0 (hide <T/rel>) or a directory
\* (inject <T/rel>), and none for any other entry; no other command follows
\* the first one.
C10_OneCommandPerEntry ==
    Projected =>
        /\ \A e \in module_dir.entries :
              LET about == CmdsAbout(TargetOf(e)) IN
              CASE e.kind = "file" ->
                     /\ Cardinality(about) = 1
                     /\ \A k \in about :
                           EntryCmds[k] = << "add", TargetOf(e), SourceOf(e), "8" >>
                [] e.kind = "symlink" ->
                     /\ Cardinality(about) = 1
                     /\ \A k \in about :
                           EntryCmds[k] = << "add", TargetOf(e), SourceOf(e), "10" >>
                [] e.kind = "chardev" /\ e.rdev = 0 ->
                     /\ Cardinality(about) = 1
                     /\ \A k \in about : EntryCmds[k] = << "hide", TargetOf(e) >>
                [] e.kind = "dir" ->
                     /\ Cardinality(about) = 1
                     /\ \A k \in about : EntryCmds[k] = << "inject", TargetOf(e) >>
                [] OTHER -> about = {}
        /\ \A k \in 1..Len(EntryCmds) :
              \E e \in module_dir.entries : EntryCmds[k][2] = TargetOf(e)

\* A directory with a file, a symlink, a whiteout and a real device node.
C10_Witness ==
    /\ Projected
    /\ \E f, l, h, d \in module_dir.entries :
          /\ f.kind = "file" /\ Len(f.rel) = 2
          /\ l.kind = "symlink"
          /\ h.kind = "chardev" /\ h.rdev = 0
          /\ d.kind = "dir"
    /\ Len(cmds) = 5

(***************************************************************************)
(* Properties of delete_directory_rules and of both traversals.            *)
(***************************************************************************)
Unprojected ==
    /\ prog = "delete_directory_rules" /\ pc = "done"
    /\ module_dir.kind = "dir" /\ io_result = "Ok"

EntryRels == { e.rel : e \in module_dir.entries }

\* C11: a completed unprojection has sent exactly one `delete <T/rel>` for
\* each entry below the module root, whatever its type, and nothing else;
\* the relative paths it visits are those a completed projection of the
\* same directory visits: every entry, once.
C11_OneDeletePerEntry ==
    /\ Unprojected =>
          /\ \A e \in module_dir.entries :
                Count(cmds, << "delete", TargetOf(e) >>) = 1
          /\ Len(cmds) = Cardinality(module_dir.entries)
    /\ (Unprojected \/ Projected) =>
          /\ Elems(visited) = EntryRels
          /\ Len(visited) = Cardinality(EntryRels)

C11_Witness ==
    /\ Unprojected
    /\ \E f, l, h, d \in module_dir.entries :
          /\ f.kind = "other" /\ Len(f.rel) = 2
          /\ l.kind = "symlink"
          /\ h.kind = "chardev" /\ h.rdev = 1
          /\ d.kind = "dir"
    /\ Len(cmds) = 4

\* C12: projecting or unprojecting a module directory that is absent or is
\* not a directory returns Ok without any command, sent or attempted.
C12_AbsentDirIsNoOp ==
    (prog \in { "inject_directory", "delete_directory_rules" }
        /\ module_dir.kind # "dir")
        => /\ cmds = << >> /\ sends = << >>
           /\ pc = "done" => io_result = "Ok"

C12_Witness ==
    /\ prog = "inject_directory" /\ pc = "done"
    /\ module_dir.kind = "file"
    /\ io_result = "Ok"

(***************************************************************************)
(* Properties of extract_module_root and extract_id.                       *)
(***************************************************************************)
Extracted == prog = "extract" /\ pc = "done"

Utf8Names == { "a", "b", "m", "n", "system", "vendor" }

OverlayCalls == SelectSeq(calls, LAMBDA c : c.fn = "mount_overlay")
PartitionCallIndices == { k \in 1..Len(calls) : calls[k].fn = "mount_partitions" }
OverlayCallIndices == { k \in 1..Len(calls) : calls[k].fn = "mount_overlay" }

\* C14: the union mounts are attempted once each, in plan order, whatever
\* the earlier ones returned, and all of them by the time execute returns;
\* mount_partitions is called at most once, after the last union mount.
C14_EachMountOnceInOrder ==
    prog = "execute" =>
        /\ \A k \in 1..Len(OverlayCalls) : OverlayCalls[k].arg = k
        /\ Len(OverlayCalls) <= Len(plan.overlay_ops)
        /\ Returned => Len(OverlayCalls) = Len(plan.overlay_ops)
        /\ Cardinality(PartitionCallIndices) <= 1
        /\ \A k \in PartitionCallIndices :
              /\ Len(OverlayCalls) = Len(plan.overlay_ops)
              /\ \A j \in OverlayCallIndices : j < k

C14_Witness ==
    /\ Returned
    /\ Len(plan.overlay_ops) = 2
    /\ OpFailed(1) /\ OpSucceeded(2)
    /\ Called("mount_partitions")

(***************************************************************************)
(* Properties of the command stream of the two traversals.                 *)
(***************************************************************************)
Traversing == prog \in { "inject_directory", "delete_directory_rules" }

\* C15: what inject_directory sends first is `inject <target base>`; the
\* command of an entry of the module directory comes after it.
C15_BoundaryFirst ==
    prog = "inject_directory" =>
        /\ sends # << >> => sends[1].cmd = << "inject", target_base >>
        /\ cmds # << >> => cmds[1] = << "inject", target_base >>
        /\ \A k \in 1..Len(cmds) :
              (\E e \in module_dir.entries : cmds[k][2] = TargetOf(e)) => k > 1

C15_Witness ==
    /\ Projected
    /\ Len(cmds) >= 3
    /\ cmds[2][1] = "add"

\* C16: a failed send is the last thing a traversal does: it returns Err
\* at once, sends nothing more, and the commands sent before it stay as
\* they were (cmds is the successful sends, in order).
C16_SendFailureStops ==
    Traversing =>
        /\ \A k \in 1..Len(sends) :
              ~sends[k].ok => (k = Len(sends) /\ pc = "done" /\ io_result = "Err")
        /\ cmds = [k \in 1..Len(cmds) |-> sends[k].cmd]
        /\ Len(cmds) = Cardinality({ k \in 1..Len(sends) : sends[k].ok })

C16_Witness ==
    /\ prog = "inject_directory" /\ pc = "done" /\ io_result = "Err"
    /\ Len(sends) = 3 /\ ~sends[3].ok
    /\ Len(cmds) = 2
    /\ Cardinality(module_dir.entries) = 4

(***************************************************************************)
(* Error exits and the empty queue of execute.                             *)
(***************************************************************************)
\* C17: when select_temp_dir or ensure_temp_dir fails, execute returns an
\* error and no ExecutionResult, mount_partitions is not called, and the
\* failing call is the last one: nothing is done about the union mounts
\* that succeeded.
C17_TempDirFailureIsFatal ==
    (CallFailed("select_temp_dir") \/ CallFailed("ensure_temp_dir")) =>
        /\ pc = "done"
        /\ ~result.ok
        /\ ~Called("mount_partitions")
        /\ Last(calls).fn \in { "select_temp_dir", "ensure_temp_dir" }
        /\ ~Last(calls).ok

C17_Witness ==
    /\ ReturnedErr
    /\ CallFailed("ensure_temp_dir")
    /\ CallOk("mount_overlay") /\ CallFailed("mount_overlay")

\* The queue has been deduplicated.
QueueFinal == prog = "execute" /\ pc \notin { "start", "overlay" }

\* C18: when the deduplicated fallback queue is empty - as it is when the
\* plan has no magic module paths and no overlay operation failed - no
\* staging directory is resolved, created or cleaned up, mount_partitions
\* is not called, and the returned replication ID set is empty.
C18_EmptyQueueNoStaging ==
    /\ (QueueFinal /\ magic_queue = << >>) =>
          /\ tempdir = None
          /\ \A k \in 1..Len(calls) : calls[k].fn = "mount_overlay"
          /\ pc = "done" => (result.ok /\ result.magic_module_ids = << >>)
    /\ (QueueFinal /\ plan.magic_module_paths = << >> /\ AllOpsSucceeded) =>
          magic_queue = << >>

C18_Witness ==
    /\ ReturnedOk /\ magic_queue = << >>
    /\ CallOk("mount_overlay")
    /\ result.overlay_module_ids # << >>

\* C19: when execute returns a result and mount_partitions did not fail,
\* every ID of plan.overlay_module_ids is in one of the two returned sets;
\* an ID missing from the overlay set is the name of a root of the batch.
C19_NoIntendedIdLost ==
    ReturnedOk =>
        /\ ~CallFailed("mount_partitions") =>
              Elems(plan.overlay_module_ids) \subseteq
                  (Elems(result.overlay_module_ids) \cup Elems(result.magic_module_ids))
        /\ \A id \in Elems(plan.overlay_module_ids) \ Elems(result.overlay_module_ids) :
              \E b \in Batches : id \in Basenames(Elems(b))

C19_Witness ==
    /\ ReturnedOk /\ CallOk("mount_partitions")
    /\ result.overlay_module_ids = << "b" >>
    /\ "a" \in Elems(plan.overlay_module_ids) \cap FailedIds
    /\ "a" \in Elems(result.magic_module_ids)

\* C20: the returned replication ID set is empty or is the set of basenames
\* of the roots of the batch given to mount_partitions; it is non-empty only
\* if mount_partitions was called and succeeded.
C20_MagicIdsAreTheBatch ==
    ReturnedOk =>
        /\ \/ result.magic_module_ids = << >>
           \/ \E b \in Batches :
                 Elems(result.magic_module_ids) = Basenames(Elems(b))
        /\ result.magic_module_ids # << >> => CallOk("mount_partitions")

C20_Witness ==
    /\ ReturnedOk
    /\ result.magic_module_ids = << "a" >>
    /\ \E b \in Batches : Len(b) = 2

====
